---- MODULE Spec2Model ----
(***************************************************************************)
(* Model of feedReader.py: the command-line validation, the lastSeen.txt   *)
(* checkpoint, feed ingestion (Controller.makeFeed / Controller.run) and   *)
(* the views of the Controller, over consecutive runs of the program.      *)
(*                                                                         *)
(* Strings are sequences of one-character strings, so that split, int,     *)
(* lower, the regular expressions and string comparison are computed the   *)
(* way the Python code computes them.  A PubTime is the 6-tuple            *)
(* <<year, month, day, hour, min, sec>> that datetime.datetime compares.   *)
(*                                                                         *)
(* The inputs of the model: the dates of the feeds' entries are the dummy  *)
(* time or later, the strings handed to str() for an item are ASCII, and   *)
(* --title is a literal with an optional leading ^.                        *)
(***************************************************************************)
EXTENDS Integers, Sequences, FiniteSets, TLC

(***************************************************************************)
(* Bounds of the model.                                                    *)
(***************************************************************************)
\* The wall clock takes the first MaxClock instants of ClockInstants.
MaxClock == 3

(***************************************************************************)
(* Characters and strings.                                                 *)
(***************************************************************************)
DigitChars == <<"0", "1", "2", "3", "4", "5", "6", "7", "8", "9">>

IsDigit(c) == \E i \in 1..Len(DigitChars) : DigitChars[i] = c

DigitValue(c) == (CHOOSE i \in 1..Len(DigitChars) : DigitChars[i] = c) - 1

UpperChars ==
    <<"A", "B", "C", "D", "E", "F", "G", "H", "I", "J", "K", "L", "M",
      "N", "O", "P", "Q", "R", "S", "T", "U", "V", "W", "X", "Y", "Z">>

LowerChars ==
    <<"a", "b", "c", "d", "e", "f", "g", "h", "i", "j", "k", "l", "m",
      "n", "o", "p", "q", "r", "s", "t", "u", "v", "w", "x", "y", "z">>

\* The characters of the model in ASCII order (what str comparison uses).
AsciiOrder ==
    <<"\n", " ", "&", "-", "/">> \o DigitChars \o <<":", ";", "<", ">">>
    \o UpperChars \o <<"^">> \o LowerChars

Ord(c) == CHOOSE i \in 1..Len(AsciiOrder) : AsciiOrder[i] = c

IsUpper(c) == \E i \in 1..Len(UpperChars) : UpperChars[i] = c

IsLower(c) == \E i \in 1..Len(LowerChars) : LowerChars[i] = c

\* \w of the re module: letters and digits (the model has no underscore)
IsWordChar(c) == IsDigit(c) \/ IsUpper(c) \/ IsLower(c)

\* str(u) of a unicode string u raises UnicodeEncodeError unless u is ASCII
IsAscii(s) == \A i \in 1..Len(s) : \E k \in 1..Len(AsciiOrder) : AsciiOrder[k] = s[i]

\* what str.strip() removes
IsSpace(c) == c \in {" ", "\n"}

\* str.lower() on one character
LowerChar(c) ==
    IF IsUpper(c)
    THEN LowerChars[CHOOSE i \in 1..Len(UpperChars) : UpperChars[i] = c]
    ELSE c

\* str.lower()
Lower(s) == [i \in 1..Len(s) |-> LowerChar(s[i])]

\* The string s as Python compares it with t: s < t
RECURSIVE StrLess(_, _)
StrLess(s, t) ==
    IF t = <<>> THEN FALSE
    ELSE IF s = <<>> THEN TRUE
    ELSE IF s[1] # t[1] THEN Ord(s[1]) < Ord(t[1])
    ELSE StrLess(Tail(s), Tail(t))

\* s.startswith(p)
IsPrefix(p, s) == Len(p) <= Len(s) /\ SubSeq(s, 1, Len(p)) = p

\* str.split(sep) for a one-character separator: always at least one part
RECURSIVE SplitFrom(_, _, _, _)
SplitFrom(s, sep, i, cur) ==
    IF i > Len(s) THEN <<cur>>
    ELSE IF s[i] = sep THEN <<cur>> \o SplitFrom(s, sep, i + 1, <<>>)
    ELSE SplitFrom(s, sep, i + 1, Append(cur, s[i]))

Split(s, sep) == SplitFrom(s, sep, 1, <<>>)

\* int(s) succeeds: the parts the model feeds it hold no sign or blank
IntOk(s) == Len(s) > 0 /\ \A i \in 1..Len(s) : IsDigit(s[i])

RECURSIVE IntOf(_)
IntOf(s) ==
    IF s = <<>> THEN 0
    ELSE 10 * IntOf(SubSeq(s, 1, Len(s) - 1)) + DigitValue(s[Len(s)])

\* "%02d" and "%04d" of strftime
Pad2(n) == <<DigitChars[(n \div 10) + 1], DigitChars[(n % 10) + 1]>>

Pad4(n) == Pad2(n \div 100) \o Pad2(n % 100)

(***************************************************************************)
(* PubTime.                                                                *)
(***************************************************************************)
IsLeap(y) == (y % 4 = 0 /\ y % 100 # 0) \/ y % 400 = 0

DaysInMonth(y, m) ==
    IF m = 2 THEN (IF IsLeap(y) THEN 29 ELSE 28)
    ELSE IF m \in {4, 6, 9, 11} THEN 30 ELSE 31

\* datetime.datetime(*time_tuple[0:6]) does not raise ValueError
PubTimeOk(t) ==
    /\ t[1] \in 1..9999
    /\ t[2] \in 1..12
    /\ t[3] \in 1..DaysInMonth(t[1], t[2])
    /\ t[4] \in 0..23
    /\ t[5] \in 0..59
    /\ t[6] \in 0..59

\* The dummy time PubTime((1000, 1, 1, 0, 0, 0))
DummyTime == <<1000, 1, 1, 0, 0, 0>>

\* PubTime.__cmp__(a, b) = -1: a.dateTime < b.dateTime
RECURSIVE TupleLess(_, _)
TupleLess(a, b) ==
    IF a = <<>> THEN FALSE
    ELSE IF a[1] # b[1] THEN a[1] < b[1]
    ELSE TupleLess(Tail(a), Tail(b))

PubTimeCmp(a, b) == IF TupleLess(a, b) THEN -1 ELSE IF TupleLess(b, a) THEN 1 ELSE 0

\* PubTime.__str__ and strftime("%Y-%m-%d %H:%M:%S"): the same text
TimeToString(t) ==
    Pad4(t[1]) \o <<"-">> \o Pad2(t[2]) \o <<"-">> \o Pad2(t[3]) \o <<" ">>
    \o Pad2(t[4]) \o <<":">> \o Pad2(t[5]) \o <<":">> \o Pad2(t[6])

\* Controller.timeStringToPubTime: the tuple unpackings and int() calls succeed
TimeStringParts(timeString) ==
    LET dt == Split(timeString, " ")
    IN  IF Len(dt) # 2 THEN <<>>
        ELSE LET d == Split(dt[1], "-")
                 t == Split(dt[2], ":")
             IN  IF Len(d) # 3 \/ Len(t) # 3 THEN <<>> ELSE d \o t

\* Controller.timeStringToPubTime returns (does not raise ValueError)
TimeStringOk(timeString) ==
    LET parts == TimeStringParts(timeString)
    IN  /\ Len(parts) = 6
        /\ \A i \in 1..6 : IntOk(parts[i])
        /\ PubTimeOk([i \in 1..6 |-> IntOf(parts[i])])

\* Controller.timeStringToPubTime: the PubTime it returns
timeStringToPubTime(timeString) ==
    LET parts == TimeStringParts(timeString)
    IN  [i \in 1..6 |-> IntOf(parts[i])]

(***************************************************************************)
(* The command line.  An option that was not given (None) and an option    *)
(* given as the empty string are both <<>>: the code only tests their      *)
(* truth value.  options.n is <<>> for None and <<k>> for the integer k.   *)
(***************************************************************************)
S_on == <<"o", "n">>

S_off == <<"o", "f", "f">>

SinceValues ==
    { <<>>,
      <<"2", "0", "2", "0", "-", "0", "6", "-", "0", "1">>,      \* a date
      <<"2", "0", "2", "0", "-", "0", "6", "-", "3", "1">>,      \* not a calendar day
      <<"2", "0", "2", "0", "-", "6", "-", "1">> }               \* not YYYY-MM-DD

DescriptionValues == { S_off, <<"O", "N">>, <<"o", "f">> }

TitleValues == { <<>>, <<"^", "H", "i">> }

NValues == { <<>>, <<-1>>, <<0>>, <<2>> }

ArgCounts == {0, 1, 2}

Options ==
    [args : ArgCounts, date : BOOLEAN, alpha : BOOLEAN, n : NValues,
     since : SinceValues, title : TitleValues,
     description : DescriptionValues, newest : BOOLEAN]

\* re.match(datePt, date) of isDateValid
MatchesDatePt(date) ==
    /\ Len(date) = 10
    /\ \A i \in 1..4 : IsDigit(date[i])
    /\ date[5] = "-"
    /\ \/ date[6] = "0" /\ IsDigit(date[7]) /\ date[7] # "0"
       \/ date[6] = "1" /\ date[7] \in {"0", "1", "2"}
    /\ date[8] = "-"
    /\ \/ date[9] = "0" /\ IsDigit(date[10]) /\ date[10] # "0"
       \/ date[9] \in {"1", "2"} /\ IsDigit(date[10])
       \/ date[9] = "3" /\ date[10] \in {"0", "1"}

isDateValid(date) == date = <<>> \/ MatchesDatePt(date)

\* a variant that leaves out the check of --since
validateCmdLineArgsNoDateCheck(options) ==
    LET descriptionFlag == Lower(options.description)
    IN  /\ options.args = 1
        /\ descriptionFlag = S_on \/ descriptionFlag = S_off

\* validateCmdLineArgs returns without raising FeedReaderError
validateCmdLineArgs(options) ==
    LET descriptionFlag == Lower(options.description)
    IN  /\ options.args = 1
        /\ isDateValid(options.since)
        /\ descriptionFlag = S_on \/ descriptionFlag = S_off

\* self.options.description.lower() == "on"
DescriptionOn(options) == Lower(options.description) = S_on

\* (self.options.n > -1): in Python 2 None > -1 is False
NTriggered(options) == options.n # <<>> /\ options.n[1] > -1

(***************************************************************************)
(* Item.                                                                   *)
(***************************************************************************)
\* Item.stripTags: re.sub("</?[\w]*.*?/?>|&#?\w+;", "", summary)
RECURSIVE WordRunEnd(_, _)
WordRunEnd(s, k) ==
    IF k <= Len(s) /\ IsWordChar(s[k]) THEN WordRunEnd(s, k + 1) ELSE k

RECURSIVE StripFrom(_, _)
StripFrom(s, i) ==
    IF i > Len(s) THEN <<>>
    ELSE
      LET closers == {j \in (i + 1)..Len(s) : s[j] = ">"}
          close == CHOOSE j \in closers : \A k \in closers : j <= k
          tag == /\ s[i] = "<"
                 /\ closers # {}
                 /\ \A k \in (i + 1)..(close - 1) : s[k] # "\n"
          start == IF i < Len(s) /\ s[i + 1] = "#" THEN i + 2 ELSE i + 1
          stop == WordRunEnd(s, start)
          entity == /\ s[i] = "&"
                    /\ stop > start
                    /\ stop <= Len(s)
                    /\ s[stop] = ";"
      IN  IF tag THEN StripFrom(s, close + 1)
          ELSE IF entity THEN StripFrom(s, stop + 1)
          ELSE <<s[i]>> \o StripFrom(s, i + 1)

stripTags(summary) == StripFrom(summary, 1)

\* Item.__init__ and Item.populate: entry.keys is what has_key answers
Item(entry) ==
    [ title   |-> IF "title" \in entry.keys THEN stripTags(entry.title) ELSE <<>>,
      url     |-> IF "link" \in entry.keys THEN entry.link ELSE <<>>,
      content |-> IF "summary" \in entry.keys THEN stripTags(entry.summary) ELSE <<>>,
      pubDate |-> IF "published_parsed" \in entry.keys THEN entry.published_parsed
                  ELSE IF "updated_parsed" \in entry.keys THEN entry.updated_parsed
                  ELSE DummyTime,
      descOn  |-> FALSE ]

\* Item.__str__: the lines of the text, each with its label
ItemStr(item) ==
    <<<<"title", item.title>>>>
    \o (IF item.pubDate[1] # 1000
        THEN <<<<"Published", TimeToString(item.pubDate)>>>> ELSE <<>>)
    \o (IF item.url # <<>> THEN <<<<"Link", item.url>>>> ELSE <<>>)
    \o (IF item.descOn THEN <<<<"Description", item.content>>>> ELSE <<>>)

(***************************************************************************)
(* Feed.                                                                   *)
(***************************************************************************)
S_ERROR == <<"E", "R", "R", "O", "R">>

\* Feed.__init__
Feed(feedTitle, feedPubDate) ==
    [title |-> feedTitle, pubDate |-> feedPubDate, items |-> <<>>, descOn |-> FALSE]

\* Feed.addItem
addItem(feed, item) == [feed EXCEPT !.items = Append(@, item)]

\* a sinceDate that is a PubTime (isinstance(sinceDate, PubTime))
IsPubTime(x) == Len(x) = 6

\* the default value -1 of printFeed's sinceDate
NoDate == <<-1>>

\* seq[0:numItems] of Python
SliceTo(seq, numItems) ==
    IF numItems >= 0
    THEN SubSeq(seq, 1, IF numItems < Len(seq) THEN numItems ELSE Len(seq))
    ELSE SubSeq(seq, 1, Len(seq) + numItems)

\* Feed.printFeed: how many items the loop visits
printFeedCount(feed, numItems) ==
    Len(SliceTo(feed.items, IF numItems = -1 THEN Len(feed.items) ELSE numItems))

\* a variant that does not hand the feed's flag on to its items
printFeedItemsNoFlag(feed, numItems) == feed

\* Feed.printFeed: the feed afterwards (entry.descOn = True where self.descOn)
printFeedItems(feed, numItems) ==
    [feed EXCEPT !.items =
        [i \in 1..Len(feed.items) |->
            IF i <= printFeedCount(feed, numItems) /\ feed.descOn
            THEN [feed.items[i] EXCEPT !.descOn = TRUE]
            ELSE feed.items[i]]]

\* a variant that tests entry.getPubDate() > sinceDate
printFeedRefsStrict(feed, numItems, sinceDate) ==
    LET date == IF IsPubTime(sinceDate) THEN sinceDate ELSE DummyTime
        Shown(i) == /\ i <= printFeedCount(feed, numItems)
                    /\ PubTimeCmp(feed.items[i].pubDate, date) > 0
    IN  SelectSeq([i \in 1..Len(feed.items) |-> i], Shown)

\* Feed.printFeed: the positions of the items whose text is printed
printFeedRefs(feed, numItems, sinceDate) ==
    LET date == IF IsPubTime(sinceDate) THEN sinceDate ELSE DummyTime
        Shown(i) == /\ i <= printFeedCount(feed, numItems)
                    /\ PubTimeCmp(feed.items[i].pubDate, date) >= 0
    IN  SelectSeq([i \in 1..Len(feed.items) |-> i], Shown)

\* Feed.printFeed: what is printed (the header, then str(entry) of each item)
printFeed(feed, numItems, sinceDate) ==
    LET after == printFeedItems(feed, numItems)
        refs == printFeedRefs(feed, numItems, sinceDate)
    IN  [kind  |-> "feed",
         title |-> feed.title,
         refs  |-> refs,
         text  |-> [k \in 1..Len(refs) |-> ItemStr(after.items[refs[k]])]]

(***************************************************************************)
(* feedparser.parse: the documents behind the URLs of the model.           *)
(***************************************************************************)
T0 == <<2020, 5, 31, 23, 59, 59>>

T1 == <<2020, 6, 1, 0, 0, 0>>

T2 == <<2020, 6, 1, 0, 0, 1>>

\* the wall clock (gmtime()) at its k-th instant
ClockInstant(k) == <<2020, 6, 1, 0, 0, k - 1>>

EntryA ==
    [keys |-> {"title", "link", "summary", "published_parsed", "updated_parsed"},
     title |-> <<"H", "i", " ", "a">>, link |-> <<"l", "a">>,
     summary |-> <<"<", "p", ">", "x", "<", "/", "p", ">">>,
     published_parsed |-> T1, updated_parsed |-> T2]

EntryB ==
    [keys |-> {"title"},
     title |-> <<"O", "h", " ", "H", "i">>, link |-> <<>>, summary |-> <<>>,
     published_parsed |-> <<>>, updated_parsed |-> <<>>]

EntryC ==
    [keys |-> {"title", "summary", "updated_parsed"},
     title |-> <<"<", "b", ">", "H", "i", "<", "/", "b", ">", "&", "a", "m", "p", ";">>,
     link |-> <<>>, summary |-> <<"y", "&", "#", "3", "8", ";">>,
     published_parsed |-> <<>>, updated_parsed |-> T1]

EntryD ==
    [keys |-> {"title", "link", "published_parsed"},
     title |-> <<"O", "l", "d">>, link |-> <<"l", "d">>, summary |-> <<>>,
     published_parsed |-> T0, updated_parsed |-> <<>>]

EntryE ==
    [keys |-> {"link", "summary", "updated_parsed"},
     title |-> <<>>, link |-> <<"l", "e">>, summary |-> <<"z">>,
     published_parsed |-> <<>>, updated_parsed |-> T2]

NoFeedData == [keys |-> {}, title |-> <<>>, updated_parsed |-> <<>>]

\* a well-formed feed with a title and a date
DocZeta ==
    [bozo |-> 0, bozo_exception |-> "none",
     feed |-> [keys |-> {"title", "updated_parsed"},
               title |-> <<"Z", "e", "t", "a">>, updated_parsed |-> T2],
     entries |-> <<EntryA, EntryB, EntryC>>]

\* bozo, but neither a URLError nor a SAXParseException
DocAlpha ==
    [bozo |-> 1, bozo_exception |-> "CharacterEncodingOverride",
     feed |-> [keys |-> {"title"},
               title |-> <<"A", "l", "p", "h", "a">>, updated_parsed |-> <<>>],
     entries |-> <<EntryD, EntryE>>]

\* a date but no title
DocUntitled ==
    [bozo |-> 0, bozo_exception |-> "none",
     feed |-> [keys |-> {"updated_parsed"}, title |-> <<>>, updated_parsed |-> T0],
     entries |-> <<EntryE>>]

\* a syntax error part-way: feedparser still returns what it parsed
DocSyntax ==
    [bozo |-> 1, bozo_exception |-> "SAXParseException",
     feed |-> [keys |-> {"title"},
               title |-> <<"A", "l", "p", "h", "a">>, updated_parsed |-> <<>>],
     entries |-> <<EntryD>>]

\* the host cannot be reached
DocUnreachable ==
    [bozo |-> 1, bozo_exception |-> "URLError", feed |-> NoFeedData, entries |-> <<>>]

\* a well-formed feed whose own title is ERROR
DocNamedError ==
    [bozo |-> 0, bozo_exception |-> "none",
     feed |-> [keys |-> {"title"}, title |-> S_ERROR, updated_parsed |-> <<>>],
     entries |-> <<EntryA>>]

\* a well-formed document with neither a title nor a date
DocNoMeta ==
    [bozo |-> 0, bozo_exception |-> "none", feed |-> NoFeedData,
     entries |-> <<EntryB>>]

\* a well-formed feed whose title is not ASCII
DocAccent ==
    [bozo |-> 0, bozo_exception |-> "none",
     feed |-> [keys |-> {"title"}, title |-> <<"Z", "o", "ë">>, updated_parsed |-> <<>>],
     entries |-> <<EntryD>>]

S_http == <<"h", "t", "t", "p", ":", "/", "/">>

S_https == <<"h", "t", "t", "p", "s", ":", "/", "/">>

\* feedparser.parse(url)
parse(url) ==
    CASE url = S_http \o <<"z">> -> DocZeta
      [] url = S_http \o <<"a">> -> DocAlpha
      [] url = S_https \o <<"a">> -> DocAlpha
      [] url = S_http \o <<"t">> -> DocUntitled
      [] url = S_http \o <<"s">> -> DocSyntax
      [] url = S_http \o <<"e">> -> DocNamedError
      [] url = S_http \o <<"n">> -> DocNoMeta
      [] url = S_http \o <<"o">> -> DocAccent
      [] OTHER -> DocUnreachable

(***************************************************************************)
(* Controller: ingestion.                                                  *)
(***************************************************************************)
\* a variant that only looks for URLError
IsFatalBozoURLErrorOnly(parserData) ==
    parserData.bozo = 1 /\ parserData.bozo_exception = "URLError"

\* isinstance(parserData.bozo_exception, URLError) or isinstance(..., SynErr)
IsFatalBozo(parserData) ==
    /\ parserData.bozo = 1
    /\ parserData.bozo_exception \in {"URLError", "SAXParseException"}

RECURSIVE AddItems(_, _)
AddItems(feed, entries) ==
    IF entries = <<>> THEN feed
    ELSE AddItems(addItem(feed, Item(Head(entries))), Tail(entries))

\* Controller.makeFeed raises: Feed.__init__ calls str(feedTitle)
makeFeedRaises(parserData) ==
    /\ ~IsFatalBozo(parserData)
    /\ "title" \in parserData.feed.keys
    /\ ~IsAscii(parserData.feed.title)

\* Controller.makeFeed
makeFeed(parserData) ==
    IF IsFatalBozo(parserData) THEN Feed(S_ERROR, <<>>)
    ELSE
      LET hasTitle == "title" \in parserData.feed.keys
          hasPubDate == "updated_parsed" \in parserData.feed.keys
          pubDate == IF hasPubDate THEN parserData.feed.updated_parsed ELSE <<>>
          title == IF hasTitle THEN parserData.feed.title ELSE <<>>
      IN  IF hasPubDate \/ hasTitle
          THEN AddItems(Feed(title, pubDate), parserData.entries)
          ELSE Feed(S_ERROR, <<>>)

\* re.match("^http[s]?://(?!/)", url)
HasScheme(url) ==
    LET k == IF Len(url) >= 5 /\ url[5] = "s" THEN 6 ELSE 5
    IN  /\ IsPrefix(<<"h", "t", "t", "p">>, url)
        /\ Len(url) >= k + 2
        /\ SubSeq(url, k, k + 2) = <<":", "/", "/">>
        /\ (Len(url) < k + 3 \/ url[k + 3] # "/")

\* Controller.appendHTTP
appendHTTP(url) == IF HasScheme(url) THEN url ELSE S_http \o url

\* str.strip()
RECURSIVE Strip(_)
Strip(s) ==
    IF s = <<>> THEN s
    ELSE IF IsSpace(s[1]) THEN Strip(Tail(s))
    ELSE IF IsSpace(s[Len(s)]) THEN Strip(SubSeq(s, 1, Len(s) - 1))
    ELSE s

\* Controller.getFeedsFromFile, for a file that can be read
getFeedsFromFile(lines) ==
    LET possibleFeeds == SelectSeq(lines, LAMBDA link : link # <<"\n">>)
    IN  [i \in 1..Len(possibleFeeds) |-> appendHTTP(Strip(possibleFeeds[i]))]

\* Controller.run, lines 294-297: how many URLs are parsed before makeFeed
\* raises, or Len(feedList) when it does not raise
ParsedBeforeRaise(feedList) ==
    LET raising == {i \in 1..Len(feedList) : makeFeedRaises(parse(feedList[i]))}
    IN  IF raising = {} THEN Len(feedList)
        ELSE (CHOOSE i \in raising : \A j \in raising : i <= j) - 1

\* Controller.run, lines 294-297: the feeds added for the URLs of feedList
RECURSIVE IngestFeeds(_)
IngestFeeds(feedList) ==
    IF feedList = <<>> THEN <<>>
    ELSE LET feedObject == makeFeed(parse(Head(feedList)))
         IN  (IF feedObject.title # S_ERROR THEN <<feedObject>> ELSE <<>>)
             \o IngestFeeds(Tail(feedList))

(***************************************************************************)
(* Controller: the views.  self.feeds is a sequence of feeds; an item is   *)
(* referred to by <<f, i>>, its feed's place in self.feeds and its place   *)
(* in that feed's items.  Each view has the state it leaves (...Feeds) and   *)
(* what it prints (...Out).                                                  *)
(***************************************************************************)
Reverse(seq) == [k \in 1..Len(seq) |-> seq[Len(seq) + 1 - k]]

ItemAt(feeds, ref) == feeds[ref[1]].items[ref[2]]

\* for feed in self.getFeeds(): for entry in feed.getItems(): ...append(entry)
RECURSIVE FlattenFrom(_, _)
FlattenFrom(feeds, f) ==
    IF f > Len(feeds) THEN <<>>
    ELSE [i \in 1..Len(feeds[f].items) |-> <<f, i>>] \o FlattenFrom(feeds, f + 1)

FlattenRefs(feeds) == FlattenFrom(feeds, 1)

\* list.sort(key=...) is stable: x goes behind every element that is not greater
RECURSIVE InsertByPubDate(_, _, _)
InsertByPubDate(sorted, ref, feeds) ==
    IF sorted = <<>> THEN <<ref>>
    ELSE IF PubTimeCmp(ItemAt(feeds, ref).pubDate,
                       ItemAt(feeds, sorted[Len(sorted)]).pubDate) >= 0
         THEN Append(sorted, ref)
         ELSE Append(InsertByPubDate(SubSeq(sorted, 1, Len(sorted) - 1), ref, feeds),
                     sorted[Len(sorted)])

\* printList.sort(key=lambda entry: entry.getPubDate())
RECURSIVE SortByPubDate(_, _)
SortByPubDate(refs, feeds) ==
    IF refs = <<>> THEN <<>>
    ELSE InsertByPubDate(SortByPubDate(SubSeq(refs, 1, Len(refs) - 1), feeds),
                         refs[Len(refs)], feeds)

RECURSIVE InsertByTitle(_, _, _)
InsertByTitle(sorted, f, feeds) ==
    IF sorted = <<>> THEN <<f>>
    ELSE IF ~StrLess(feeds[f].title, feeds[sorted[Len(sorted)]].title)
         THEN Append(sorted, f)
         ELSE Append(InsertByTitle(SubSeq(sorted, 1, Len(sorted) - 1), f, feeds),
                     sorted[Len(sorted)])

\* feedsList.sort(key=lambda feed: feed.getTitle())
RECURSIVE SortByTitle(_, _)
SortByTitle(idx, feeds) ==
    IF idx = <<>> THEN <<>>
    ELSE InsertByTitle(SortByTitle(SubSeq(idx, 1, Len(idx) - 1), feeds),
                       idx[Len(idx)], feeds)

\* Controller.setFeedDescriptionFlag
setFeedDescriptionFlag(feed, options) ==
    IF DescriptionOn(options) THEN [feed EXCEPT !.descOn = TRUE] ELSE feed

\* Controller.setItemDescriptionFlag
setItemDescriptionFlag(item, options) ==
    IF DescriptionOn(options) THEN [item EXCEPT !.descOn = TRUE] ELSE item

\* for entry in printList: self.setItemDescriptionFlag(entry)
RECURSIVE FlagItems(_, _, _)
FlagItems(feeds, refs, options) ==
    IF refs = <<>> THEN feeds
    ELSE LET r == Head(refs)
         IN  FlagItems([feeds EXCEPT ![r[1]].items[r[2]] =
                            setItemDescriptionFlag(@, options)],
                       Tail(refs), options)

\* print entry
ItemPrint(feeds, ref) ==
    [kind |-> "item", feed |-> ref[1], title |-> <<>>, refs |-> <<ref[2]>>,
     text |-> <<ItemStr(ItemAt(feeds, ref))>>]

\* setFeedDescriptionFlag(feed); feed.printFeed(...): the feed afterwards
FlagAndPrintFeed(feed, options, numItems) ==
    printFeedItems(setFeedDescriptionFlag(feed, options), numItems)

\* setFeedDescriptionFlag(feed); feed.printFeed(...): what is printed
FeedPrint(feeds, f, options, numItems, sinceDate) ==
    [feed |-> f] @@ printFeed(setFeedDescriptionFlag(feeds[f], options),
                              numItems, sinceDate)

\* a loop "for feed in self.getFeeds(): flag; feed.printFeed(...)"
EachFeedFeeds(feeds, options, numItems) ==
    [f \in 1..Len(feeds) |-> FlagAndPrintFeed(feeds[f], options, numItems)]

EachFeedOut(feeds, order, options, numItems, sinceDate) ==
    [k \in 1..Len(order) |-> FeedPrint(feeds, order[k], options, numItems, sinceDate)]

\* Controller.getFeeds: a copy of the list, as the places of its feeds
getFeeds(feeds) == [f \in 1..Len(feeds) |-> f]

\* Controller.defaultView
defaultViewFeeds(feeds, options) == EachFeedFeeds(feeds, options, -1)

defaultViewOut(feeds, options) ==
    EachFeedOut(feeds, getFeeds(feeds), options, -1, NoDate)

\* a variant without printList.reverse()
dateViewOrderAscending(feeds) == SortByPubDate(FlattenRefs(feeds), feeds)

\* a variant that sorts with reverse=True, which keeps equal keys in input order
dateViewOrderStableDescending(feeds) ==
    Reverse(SortByPubDate(Reverse(FlattenRefs(feeds)), feeds))

\* Controller.dateView: printList after sort and reverse
dateViewOrder(feeds) == Reverse(SortByPubDate(FlattenRefs(feeds), feeds))

\* Controller.dateView: the entries that pass the test against the dummy time
dateViewShown(feeds) ==
    SelectSeq(dateViewOrder(feeds),
              LAMBDA r : PubTimeCmp(ItemAt(feeds, r).pubDate, DummyTime) # 0)

dateViewFeeds(feeds, options) == FlagItems(feeds, dateViewOrder(feeds), options)

dateViewOut(feeds, options) ==
    LET after == dateViewFeeds(feeds, options)
        shown == dateViewShown(feeds)
    IN  [k \in 1..Len(shown) |-> ItemPrint(after, shown[k])]

\* Controller.alphaView: the sorted copy
alphaViewOrder(feeds) == SortByTitle(getFeeds(feeds), feeds)

\* a variant that sorts self.feeds itself instead of a copy
alphaViewFeedsInPlace(feeds, options) ==
    LET order == alphaViewOrder(feeds)
    IN  [k \in 1..Len(feeds) |-> FlagAndPrintFeed(feeds[order[k]], options, -1)]

\* Controller.alphaView: self.feeds afterwards
alphaViewFeeds(feeds, options) == EachFeedFeeds(feeds, options, -1)

alphaViewOut(feeds, options) ==
    EachFeedOut(feeds, alphaViewOrder(feeds), options, -1, NoDate)

\* Controller.numView
numViewFeeds(feeds, options, n) == EachFeedFeeds(feeds, options, n)

numViewOut(feeds, options, n) ==
    EachFeedOut(feeds, getFeeds(feeds), options, n, NoDate)

\* Controller.sinceView: the date of --since (options.since passed isDateValid)
SinceDate(options) ==
    LET sinceDate == Split(options.since, "-")
    IN  <<IntOf(sinceDate[1]), IntOf(sinceDate[2]), IntOf(sinceDate[3]), 0, 0, 0>>

\* Controller.sinceView, from "for feed in self.getFeeds()" on
sinceViewFeeds(feeds, options) == EachFeedFeeds(feeds, options, -1)

sinceViewOut(feeds, options, date) ==
    EachFeedOut(feeds, getFeeds(feeds), options, -1, date)

\* re.search(self.options.title, title) for a pattern that is a literal,
\* anchored with ^ or not
RegexSearch(pattern, title) ==
    IF pattern # <<>> /\ pattern[1] = "^"
    THEN IsPrefix(Tail(pattern), title)
    ELSE \E k \in 0..Len(title) :
            IsPrefix(pattern, SubSeq(title, k + 1, Len(title)))

\* Controller.titleView: printList
titleViewOrder(feeds, options) ==
    SelectSeq(FlattenRefs(feeds),
              LAMBDA r : RegexSearch(options.title, ItemAt(feeds, r).title))

titleViewFeeds(feeds, options) ==
    FlagItems(feeds, titleViewOrder(feeds, options), options)

titleViewOut(feeds, options) ==
    LET after == titleViewFeeds(feeds, options)
        shown == titleViewOrder(feeds, options)
    IN  [k \in 1..Len(shown) |-> ItemPrint(after, shown[k])]

(***************************************************************************)
(* Controller.setLastSeenTime on the file lastSeen.txt.                    *)
(***************************************************************************)
NoFile == [exists |-> FALSE, text |-> <<>>]

\* timeStringToPubTime raises ValueError on the text read (line 87)
setLastSeenTimeRaises(file) == file.exists /\ ~TimeStringOk(file.text)

\* a variant that reads lastSeen.txt back after writing the current time to it
setLastSeenTimeValueAfterWrite(file, now) == timeStringToPubTime(TimeToString(now))

\* self.lastSeenTime after setLastSeenTime
setLastSeenTimeValue(file, now) ==
    IF ~file.exists THEN DummyTime ELSE timeStringToPubTime(file.text)

\* lastSeen.txt after setLastSeenTime: strftime("%Y-%m-%d %H:%M:%S", gmtime())
setLastSeenTimeFile(file, now) == [exists |-> TRUE, text |-> TimeToString(now)]

\* what setLastSeenTime does with the file, in order
setLastSeenTimeIO(file) ==
    IF ~file.exists THEN <<"glob", "write">>
    ELSE IF setLastSeenTimeRaises(file) THEN <<"glob", "read">>
    ELSE <<"glob", "read", "write">>

(***************************************************************************)
(* Controller.run: the order of the views.                                 *)
(***************************************************************************)
ViewOrder == <<"date", "alpha", "num", "since", "title", "newest">>

Requested(options, view) ==
    CASE view = "date" -> options.date
      [] view = "alpha" -> options.alpha
      [] view = "num" -> NTriggered(options)
      [] view = "since" -> options.since # <<>>
      [] view = "title" -> options.title # <<>>
      [] view = "newest" -> options.newest

optionsAreTriggered(options) ==
    \E k \in 1..Len(ViewOrder) : Requested(options, ViewOrder[k])

\* the first requested view behind place k of ViewOrder, or the end of run
NextView(options, k) ==
    LET later == {j \in (k + 1)..Len(ViewOrder) : Requested(options, ViewOrder[j])}
    IN  IF later = {} THEN "exit"
        ELSE ViewOrder[CHOOSE j \in later : \A i \in later : j <= i]

FirstView(options) ==
    IF optionsAreTriggered(options) THEN NextView(options, 0) ELSE "default"

(***************************************************************************)
(* The inputs of a run that are not on the command line.                   *)
(***************************************************************************)
\* the feed-list file: missing, or its lines as readlines() returns them
FeedFiles ==
    { [exists |-> FALSE, lines |-> <<>>],
      [exists |-> TRUE, lines |-> <<>>],
      [exists |-> TRUE, lines |-> << <<"z", "\n">> >>],
      [exists |-> TRUE, lines |-> << <<"z", "\n">>, S_http \o <<"a", "\n">> >>],
      [exists |-> TRUE,
       lines |-> << <<"z", "\n">>, <<"\n">>, S_https \o <<"a", "\n">>, <<" ", "t", "\n">> >>],
      [exists |-> TRUE, lines |-> << <<"u", "\n">>, <<"z", "\n">>, <<"s", "\n">> >>],
      [exists |-> TRUE, lines |-> << <<"e", "\n">>, <<"a", "\n">>, <<"n", "\n">> >>],
      [exists |-> TRUE, lines |-> << <<"z", "\n">>, <<"z", "\n">> >>],
      [exists |-> TRUE, lines |-> << <<"z", "\n">>, <<"o", "\n">>, <<"a", "\n">> >>],
      [exists |-> TRUE, lines |-> << <<"s", "\n">>, <<"u", "\n">> >>] }

\* texts of lastSeen.txt that are not 'YYYY-MM-DD HH:MM:SS' of an instant
MalformedTexts ==
    { <<"2", "0", "2", "0", "-", "0", "6", "-", "0", "1">>,
      <<"2", "0", "2", "0", "-", "1", "3", "-", "0", "1", " ",
        "0", "0", ":", "0", "0", ":", "0", "0">> }

NoOptions ==
    [args |-> 0, date |-> FALSE, alpha |-> FALSE, n |-> <<>>, since |-> <<>>,
     title |-> <<>>, description |-> S_off, newest |-> FALSE]

(***************************************************************************)
(* The state.                                                              *)
(***************************************************************************)
VARIABLES
    lastSeenFile,   \* the file lastSeen.txt: [exists, text]
    clock,          \* the wall clock: gmtime() is ClockInstant(clock)
    pc,             \* where the run is: idle, init, run, a view, exit
    options,        \* the parsed command line of the run
    error,          \* how the run ended: none, or the exception raised
    lastSeenTime,   \* Controller.lastSeenTime (<<>>: None)
    feeds,          \* Controller.feeds
    out,            \* what the views printed so far: one section per view
    feedList,       \* the URLs read from the feed-list file
    ingested,       \* Controller.feeds as it was when ingestion ended
    ioLog,          \* the file and network operations of the run, in order
    fileAtStart,    \* lastSeen.txt as it was when the run started
    written,        \* the instant the latest write of lastSeen.txt put there
    writtenBefore   \* written, as it was when the run started

vars ==
    <<lastSeenFile, clock, pc, options, error, lastSeenTime, feeds, out,
      feedList, ingested, ioLog, fileAtStart, written, writtenBefore>>

runVars == <<options, error, lastSeenTime, feeds, out, feedList, ingested,
             ioLog, fileAtStart, writtenBefore>>

Init ==
    /\ lastSeenFile = NoFile
    /\ clock = 1
    /\ pc = "idle"
    /\ options = NoOptions
    /\ error = "none"
    /\ lastSeenTime = <<>>
    /\ feeds = <<>>
    /\ out = <<>>
    /\ feedList = <<>>
    /\ ingested = <<>>
    /\ ioLog = <<>>
    /\ fileAtStart = NoFile
    /\ written = <<>>
    /\ writtenBefore = <<>>

(***************************************************************************)
(* The environment between two runs.                                       *)
(***************************************************************************)
\* time passes
Tick ==
    /\ pc = "idle"
    /\ clock < MaxClock
    /\ clock' = clock + 1
    /\ UNCHANGED <<lastSeenFile, pc, written>>
    /\ UNCHANGED runVars

\* lastSeen.txt is deleted
DeleteCheckpoint ==
    /\ pc = "idle"
    /\ lastSeenFile.exists
    /\ lastSeenFile' = NoFile
    /\ UNCHANGED <<clock, pc, written>>
    /\ UNCHANGED runVars

\* lastSeen.txt is damaged
CorruptCheckpoint ==
    /\ pc = "idle"
    /\ \E text \in MalformedTexts :
          /\ lastSeenFile # [exists |-> TRUE, text |-> text]
          /\ lastSeenFile' = [exists |-> TRUE, text |-> text]
    /\ UNCHANGED <<clock, pc, written>>
    /\ UNCHANGED runVars

(***************************************************************************)
(* A run of the program.                                                   *)
(***************************************************************************)
\* main: processCmdLineArgs and validateCmdLineArgs
Main ==
    /\ pc = "idle"
    /\ \E o \in Options :
          /\ options' = o
          /\ IF validateCmdLineArgs(o)
             THEN pc' = "init" /\ error' = "none"
             ELSE pc' = "exit" /\ error' = "FeedReaderError"
    /\ fileAtStart' = lastSeenFile
    /\ writtenBefore' = written
    /\ UNCHANGED <<lastSeenFile, clock, written, lastSeenTime, feeds, out,
                   feedList, ingested, ioLog>>

\* Controller.__init__: self.setLastSeenTime()
SetLastSeenTime ==
    /\ pc = "init"
    /\ ioLog' = setLastSeenTimeIO(lastSeenFile)
    /\ IF setLastSeenTimeRaises(lastSeenFile)
       THEN /\ pc' = "exit"
            /\ error' = "ValueError"
            /\ UNCHANGED <<lastSeenFile, lastSeenTime, written>>
       ELSE /\ pc' = "run"
            /\ lastSeenTime' = setLastSeenTimeValue(lastSeenFile, ClockInstant(clock))
            /\ lastSeenFile' = setLastSeenTimeFile(lastSeenFile, ClockInstant(clock))
            /\ written' = ClockInstant(clock)
            /\ UNCHANGED error
    /\ UNCHANGED <<clock, options, feeds, out, feedList, ingested,
                   fileAtStart, writtenBefore>>

\* Controller.run, lines 293-302: read the feed list and parse every feed
Ingest ==
    /\ pc = "run"
    /\ \E file \in FeedFiles :
          IF ~file.exists
          THEN /\ pc' = "exit"
               /\ error' = "FeedReaderError"
               /\ ioLog' = Append(ioLog, "feedlist")
               /\ UNCHANGED <<feedList, feeds, ingested>>
          ELSE LET urls == getFeedsFromFile(file.lines)
                   done == ParsedBeforeRaise(urls)
               IN  /\ feedList' = urls
                   /\ IF done = Len(urls)
                      THEN /\ feeds' = IngestFeeds(urls)
                           /\ ingested' = IngestFeeds(urls)
                           /\ ioLog' = Append(ioLog, "feedlist")
                                        \o [i \in 1..Len(urls) |-> "parse"]
                           /\ pc' = FirstView(options)
                           /\ UNCHANGED error
                      ELSE /\ feeds' = IngestFeeds(SubSeq(urls, 1, done))
                           /\ ioLog' = Append(ioLog, "feedlist")
                                        \o [i \in 1..(done + 1) |-> "parse"]
                           /\ pc' = "exit"
                           /\ error' = "UnicodeEncodeError"
                           /\ UNCHANGED ingested
    /\ UNCHANGED <<lastSeenFile, clock, options, lastSeenTime, out,
                   fileAtStart, written, writtenBefore>>

\* the header of a view (none for the default view) and what the view prints
Section(view, prints) == [view |-> view, prints |-> prints]

\* the variables no view changes
ViewFrame ==
    UNCHANGED <<lastSeenFile, clock, options, error, lastSeenTime, feedList,
                ingested, ioLog, fileAtStart, written, writtenBefore>>

DefaultView ==
    /\ pc = "default"
    /\ feeds' = defaultViewFeeds(feeds, options)
    /\ out' = Append(out, Section("default", defaultViewOut(feeds, options)))
    /\ pc' = "exit"
    /\ ViewFrame

DateView ==
    /\ pc = "date"
    /\ feeds' = dateViewFeeds(feeds, options)
    /\ out' = Append(out, Section("date", dateViewOut(feeds, options)))
    /\ pc' = NextView(options, 1)
    /\ ViewFrame

AlphaView ==
    /\ pc = "alpha"
    /\ feeds' = alphaViewFeeds(feeds, options)
    /\ out' = Append(out, Section("alpha", alphaViewOut(feeds, options)))
    /\ pc' = NextView(options, 2)
    /\ ViewFrame

NumView ==
    /\ pc = "num"
    /\ feeds' = numViewFeeds(feeds, options, options.n[1])
    /\ out' = Append(out, Section("num", numViewOut(feeds, options, options.n[1])))
    /\ pc' = NextView(options, 3)
    /\ ViewFrame

\* sinceView(): PubTime((year, month, day, 0, 0, 0)) raises ValueError for a
\* day the month does not have
SinceView ==
    /\ pc = "since"
    /\ IF PubTimeOk(SinceDate(options))
       THEN /\ feeds' = sinceViewFeeds(feeds, options)
            /\ out' = Append(out, Section("since",
                                 sinceViewOut(feeds, options, SinceDate(options))))
            /\ pc' = NextView(options, 4)
            /\ UNCHANGED error
       ELSE /\ pc' = "exit"
            /\ error' = "ValueError"
            /\ out' = Append(out, Section("since", <<>>))
            /\ UNCHANGED feeds
    /\ UNCHANGED <<lastSeenFile, clock, options, lastSeenTime, feedList,
                   ingested, ioLog, fileAtStart, written, writtenBefore>>

TitleView ==
    /\ pc = "title"
    /\ feeds' = titleViewFeeds(feeds, options)
    /\ out' = Append(out, Section("title", titleViewOut(feeds, options)))
    /\ pc' = NextView(options, 5)
    /\ ViewFrame

\* newestView: sinceView(withLastSeen=True)
NewestView ==
    /\ pc = "newest"
    /\ feeds' = sinceViewFeeds(feeds, options)
    /\ out' = Append(out, Section("newest", sinceViewOut(feeds, options, lastSeenTime)))
    /\ pc' = NextView(options, 6)
    /\ ViewFrame

\* the process ends
Exit ==
    /\ pc = "exit"
    /\ pc' = "idle"
    /\ options' = NoOptions
    /\ error' = "none"
    /\ lastSeenTime' = <<>>
    /\ feeds' = <<>>
    /\ out' = <<>>
    /\ feedList' = <<>>
    /\ ingested' = <<>>
    /\ ioLog' = <<>>
    /\ fileAtStart' = NoFile
    /\ writtenBefore' = <<>>
    /\ UNCHANGED <<lastSeenFile, clock, written>>

Next ==
    \/ Tick
    \/ DeleteCheckpoint
    \/ CorruptCheckpoint
    \/ Main
    \/ SetLastSeenTime
    \/ Ingest
    \/ DefaultView
    \/ DateView
    \/ AlphaView
    \/ NumView
    \/ SinceView
    \/ TitleView
    \/ NewestView
    \/ Exit

Spec == Init /\ [][Next]_vars

(***************************************************************************)
(* Properties.                                                             *)
(***************************************************************************)
\* the sections of out that the view printed
SectionsOf(view) == {k \in 1..Len(out) : out[k].view = view}

\* the run has been validated and has left Controller.setLastSeenTime
PastSetLastSeenTime == pc \notin {"idle", "init"} /\ validateCmdLineArgs(options)

\* the run has ingested the feeds (lines 293-297 of run have returned)
PastIngest ==
    /\ PastSetLastSeenTime
    /\ "feedlist" \in {ioLog[k] : k \in 1..Len(ioLog)}
    /\ ~(pc = "exit" /\ error \in {"FeedReaderError", "UnicodeEncodeError"})

S_sentinelDate == <<"1", "0", "0", "0", "-", "0", "1", "-", "0", "1">>

\* the instant the newest view of this run has to filter by
PreviousCheckpoint == IF fileAtStart.exists THEN writtenBefore ELSE DummyTime

\* C1: the newest view filters by the instant the latest earlier run wrote to
\* lastSeen.txt (not by the one this run wrote); with no lastSeen.txt at the
\* start it filters by the dummy time and prints what --since 1000-01-01 prints.
C1_NewestUsesPreviousCheckpoint ==
    \A k \in SectionsOf("newest") :
        /\ lastSeenTime = PreviousCheckpoint
        /\ out[k].prints = sinceViewOut(ingested, options, PreviousCheckpoint)
        /\ ~fileAtStart.exists =>
              /\ isDateValid(S_sentinelDate)
              /\ out[k].prints =
                    sinceViewOut(ingested, options,
                                 SinceDate([options EXCEPT !.since = S_sentinelDate]))

\* a run after an earlier run and a tick of the clock: its newest view shows
\* some of a feed's items and hides others
C1_Witness ==
    /\ fileAtStart.exists
    /\ writtenBefore # written
    /\ \E k \in SectionsOf("newest") : \E j \in 1..Len(out[k].prints) :
          LET p == out[k].prints[j]
          IN  p.refs # <<>> /\ Len(p.refs) < Len(ingested[p.feed].items)

\* C2: every validated run that is past setLastSeenTime has written the current
\* time to lastSeen.txt exactly once, as the last thing it did to the file.
C2_CheckpointWrittenOnce ==
    PastSetLastSeenTime =>
        /\ Len(SelectSeq(ioLog, LAMBDA e : e = "write")) = 1
        /\ \A i, j \in 1..Len(ioLog) :
              (ioLog[i] = "read" /\ ioLog[j] = "write") => i < j
        /\ lastSeenFile = [exists |-> TRUE, text |-> TimeToString(ClockInstant(clock))]

\* C3: a validated run that found a malformed lastSeen.txt goes on to ingest
\* the feeds, with lastSeen.txt reset to the current time.
C3_MalformedCheckpointRecovered ==
    (PastSetLastSeenTime /\ fileAtStart.exists /\ fileAtStart.text \in MalformedTexts) =>
        /\ error # "ValueError"
        /\ lastSeenFile = [exists |-> TRUE, text |-> TimeToString(ClockInstant(clock))]
        /\ pc = "exit" => "feedlist" \in {ioLog[k] : k \in 1..Len(ioLog)}

\* the command lines the validation has to reject
ArgsInvalid(o) ==
    \/ o.args # 1
    \/ o.since = <<"2", "0", "2", "0", "-", "6", "-", "1">>
    \/ o.description = <<"o", "f">>

\* C4: a run whose arguments are invalid ends with a FeedReaderError before it
\* touches lastSeen.txt, the feed list or any feed.
C4_InvalidArgsTouchNothing ==
    (pc # "idle" /\ ArgsInvalid(options)) =>
        /\ pc = "exit"
        /\ error = "FeedReaderError"
        /\ ioLog = <<>>
        /\ lastSeenFile = fileAtStart
        /\ feeds = <<>> /\ out = <<>> /\ lastSeenTime = <<>>

\* a run with a --since that is not YYYY-MM-DD, started with lastSeen.txt there
C4_Witness ==
    /\ pc = "exit"
    /\ options.args = 1
    /\ options.since = <<"2", "0", "2", "0", "-", "6", "-", "1">>
    /\ options.newest
    /\ fileAtStart.exists
    /\ lastSeenFile = fileAtStart

\* the items of the feeds fs, as references
AllRefs(fs) == UNION {{<<f, i>> : i \in 1..Len(fs[f].items)} : f \in 1..Len(fs)}

\* the items a section of single items (date, title) printed, in order
PrintedRefs(k) ==
    [j \in 1..Len(out[k].prints) |-> <<out[k].prints[j].feed, out[k].prints[j].refs[1]>>]

\* r comes before q in input order: feed order, then the feed's item order
RefBefore(r, q) == r[1] < q[1] \/ (r[1] = q[1] /\ r[2] < q[2])

DateOf(r) == ItemAt(ingested, r).pubDate

\* C5: the date view prints every ingested item whose date is not the dummy
\* time, each once, and no other; no printed item has a later date than one
\* printed before it.
C5_DateViewDatedDescending ==
    \A k \in SectionsOf("date") :
        LET refs == PrintedRefs(k)
        IN  /\ \A i, j \in 1..Len(refs) : i # j => refs[i] # refs[j]
            /\ {refs[j] : j \in 1..Len(refs)}
                   = {r \in AllRefs(ingested) : DateOf(r) # DummyTime}
            /\ \A i, j \in 1..Len(refs) : i < j => ~TupleLess(DateOf(refs[i]), DateOf(refs[j]))
            /\ \A j \in 1..Len(refs) :
                   out[k].prints[j].text[1][1] = <<"title", ItemAt(ingested, refs[j]).title>>

\* a date view over dated items of different dates and an undated item
C5_Witness ==
    \E k \in SectionsOf("date") :
        /\ Len(out[k].prints) >= 3
        /\ \E i, j \in 1..Len(out[k].prints) :
              TupleLess(DateOf(PrintedRefs(k)[j]), DateOf(PrintedRefs(k)[i]))
        /\ \E r \in AllRefs(ingested) : DateOf(r) = DummyTime

\* C6 as stated: in the date view items of equal date are printed in input order.
C6_TiesInInputOrder ==
    \A k \in SectionsOf("date") :
        LET refs == PrintedRefs(k)
        IN  \A i, j \in 1..Len(refs) :
                (i < j /\ DateOf(refs[i]) = DateOf(refs[j])) => RefBefore(refs[i], refs[j])

\* C6 amended: in the date view items of equal date are printed in the reverse
\* of their input order (the list is sorted ascending, then reversed).
C6_TiesInReverseInputOrder ==
    \A k \in SectionsOf("date") :
        LET refs == PrintedRefs(k)
        IN  \A i, j \in 1..Len(refs) :
                (i < j /\ DateOf(refs[i]) = DateOf(refs[j])) => RefBefore(refs[j], refs[i])

\* a date view with two items of one date in one feed and two in different feeds
C6_Witness ==
    \E k \in SectionsOf("date") :
        LET refs == PrintedRefs(k)
        IN  /\ \E i, j \in 1..Len(refs) :
                  i < j /\ DateOf(refs[i]) = DateOf(refs[j]) /\ refs[i][1] = refs[j][1]
            /\ \E i, j \in 1..Len(refs) :
                  i < j /\ DateOf(refs[i]) = DateOf(refs[j]) /\ refs[i][1] # refs[j][1]

\* the sections printed feed by feed with Feed.printFeed
FeedViews == {"default", "alpha", "num", "since", "newest"}

\* numItems and sinceDate of the printFeed calls of a view
NumItemsOf(view, items) == IF view = "num" THEN options.n[1] ELSE Len(items)

IsDateView(view) == view \in {"since", "newest"}

SinceDateOf(view) == IF view = "since" THEN SinceDate(options) ELSE lastSeenTime

ParsedWithMetadata(d) ==
    /\ ~(d.bozo = 1 /\ d.bozo_exception \in {"URLError", "SAXParseException"})
    /\ d.feed.keys \cap {"title", "updated_parsed"} # {}

\* the feed is the one built from the document, its items in document order
BuiltFrom(feed, d) ==
    /\ feed.title = (IF "title" \in d.feed.keys THEN d.feed.title ELSE <<>>)
    /\ Len(feed.items) = Len(d.entries)
    /\ \A i \in 1..Len(d.entries) : feed.items[i] = Item(d.entries[i])

\* Controller.feeds holds the feeds of the URLs in survivors, in that order
FeedsAre(survivors) ==
    /\ Len(ingested) = Len(survivors)
    /\ \A k \in 1..Len(survivors) : BuiltFrom(ingested[k], parse(survivors[k]))
    /\ \A k \in 1..Len(ingested) : ingested[k].title # S_ERROR

\* C8 as stated: after ingestion Controller.feeds holds, in input order, the
\* feeds that parsed without transport or syntax error and have a title or a
\* date, and none of them is titled ERROR.
C8_FeedsAreParsedOnes ==
    PastIngest =>
        FeedsAre(SelectSeq(feedList, LAMBDA u : ParsedWithMetadata(parse(u))))

\* C8 amended: ... the feeds that parsed without transport or syntax error,
\* have a title or a date, and are not themselves titled ERROR.
C8_FeedsAreParsedOnesNotNamedError ==
    PastIngest =>
        FeedsAre(SelectSeq(feedList,
                           LAMBDA u : /\ ParsedWithMetadata(parse(u))
                                      /\ parse(u).feed.title # S_ERROR))

\* a feed list with a well-formed feed titled ERROR, a feed that is kept and a
\* document without title and date
C8_Witness ==
    /\ PastIngest
    /\ \E i \in 1..Len(feedList) :
          ParsedWithMetadata(parse(feedList[i])) /\ parse(feedList[i]).feed.title = S_ERROR
    /\ \E i \in 1..Len(feedList) : ~ParsedWithMetadata(parse(feedList[i]))
    /\ Len(ingested) >= 1

\* the feeds without their description flags
Unflagged(fs) ==
    [f \in 1..Len(fs) |->
        [fs[f] EXCEPT !.descOn = FALSE,
                      !.items = [i \in 1..Len(fs[f].items) |->
                                    [fs[f].items[i] EXCEPT !.descOn = FALSE]]]]

\* what the view prints when it is the first view to run after ingestion
AloneOut(view) ==
    CASE view = "default" -> defaultViewOut(ingested, options)
      [] view = "date" -> dateViewOut(ingested, options)
      [] view = "alpha" -> alphaViewOut(ingested, options)
      [] view = "num" -> numViewOut(ingested, options, options.n[1])
      [] view = "since" -> IF PubTimeOk(SinceDate(options))
                           THEN sinceViewOut(ingested, options, SinceDate(options))
                           ELSE <<>>
      [] view = "title" -> titleViewOut(ingested, options)
      [] view = "newest" -> sinceViewOut(ingested, options, lastSeenTime)

\* C9: after any views Controller.feeds and every feed's items are the ones of
\* ingestion in the same order, and every view printed what it prints when
\* it is the only view.
C9_ViewsKeepOrder ==
    PastIngest =>
        /\ Unflagged(feeds) = Unflagged(ingested)
        /\ \A k \in 1..Len(out) : out[k].prints = AloneOut(out[k].view)

\* a run with descriptions on whose alpha view printed the feeds in another
\* order than the file's and that ran the date view before and two views after
C9_Witness ==
    /\ PastIngest
    /\ DescriptionOn(options)
    /\ Len(out) >= 4
    /\ SectionsOf("date") # {} /\ SectionsOf("alpha") # {} /\ SectionsOf("num") # {}
    /\ Len(ingested) >= 2
    /\ alphaViewOrder(ingested) # getFeeds(ingested)

\* the text printed for an item has a Description line
HasDescription(text) == \E l \in 1..Len(text) : text[l][1] = "Description"

\* --description as the user gave it
GivenOff(o) == o.description = S_off

GivenOn(o) == o.description \in {S_on, <<"O", "N">>}

\* C10: with --description off no flag is ever set and nothing printed has a
\* Description line; with --description on every printed item that has content
\* has the Description line with its content.
C10_DescriptionFollowsOption ==
    /\ (pc # "idle" /\ GivenOff(options)) =>
          /\ \A k \in 1..Len(out) : \A j \in 1..Len(out[k].prints) :
                \A t \in 1..Len(out[k].prints[j].text) :
                   ~HasDescription(out[k].prints[j].text[t])
          /\ \A f \in 1..Len(feeds) :
                /\ ~feeds[f].descOn
                /\ \A i \in 1..Len(feeds[f].items) : ~feeds[f].items[i].descOn
    /\ (pc # "idle" /\ GivenOn(options)) =>
          \A k \in 1..Len(out) : \A j \in 1..Len(out[k].prints) :
             \A t \in 1..Len(out[k].prints[j].text) :
                LET p == out[k].prints[j]
                    item == ingested[p.feed].items[p.refs[t]]
                IN  item.content # <<>> =>
                       \E l \in 1..Len(p.text[t]) :
                          p.text[t][l] = <<"Description", item.content>>

\* a run with --description ON whose first view printed feed by feed and a
\* later one item by item, items with and without content among them
C10_Witness ==
    /\ GivenOn(options)
    /\ Len(out) >= 2
    /\ out[1].view \in FeedViews
    /\ \E j \in 1..Len(out[1].prints) : \E t \in 1..Len(out[1].prints[j].text) :
          /\ HasDescription(out[1].prints[j].text[t])
          /\ ingested[out[1].prints[j].feed].items[out[1].prints[j].refs[t]].content # <<>>
    /\ \E j \in 1..Len(out[1].prints) : \E t \in 1..Len(out[1].prints[j].text) :
          ingested[out[1].prints[j].feed].items[out[1].prints[j].refs[t]].content = <<>>
    /\ SectionsOf("title") # {}

\* the view option is set on the command line o (num: when n > -1)
OptionSet(o, view) ==
    \/ view = "date" /\ o.date
    \/ view = "alpha" /\ o.alpha
    \/ view = "num" /\ o.n \in {<<0>>, <<2>>}
    \/ view = "since" /\ o.since # <<>>
    \/ view = "title" /\ o.title # <<>>
    \/ view = "newest" /\ o.newest

\* the views a run with the command line o has to execute, in order
ExpectedViews(o) ==
    LET six == <<"date", "alpha", "num", "since", "title", "newest">>
        asked == SelectSeq(six, LAMBDA v : OptionSet(o, v))
    IN  IF asked = <<>> THEN <<"default">> ELSE asked

\* the views executed so far, in order
ExecutedViews == [k \in 1..Len(out) |-> out[k].view]

\* C11: a run that has ingested the feeds executes the requested views in the
\* order date, alpha, num, since, title, newest, each once and under its
\* header, and the default view alone exactly when no view option is set:
\* what has been executed is always a prefix of that list, and the whole list
\* when the run ends.
C11_ViewsInFixedOrder ==
    PastIngest =>
        /\ Len(ExecutedViews) <= Len(ExpectedViews(options))
        /\ ExecutedViews = SubSeq(ExpectedViews(options), 1, Len(ExecutedViews))
        /\ pc = "exit" => ExecutedViews = ExpectedViews(options)

====
